---------------------------- MODULE Spec2Model ----------------------------
(***************************************************************************)
(* Discord Emoji Optimizer (src/emoji_optimizer.py).                       *)
(*                                                                         *)
(* Three specifications share the variables below:                         *)
(*   SpecOptimize  one call of optimize_image on an input drawn from       *)
(*                 Calls (image descriptor and encoder outcomes);          *)
(*   SpecThumb     the same call, the image dimensions drawn from          *)
(*                 1..MaxDim x 1..MaxDim;                                  *)
(*   Spec          the process: startup sweep, then the watch loop with    *)
(*                 the files of the input folder created and deleted by    *)
(*                 the environment.                                        *)
(*                                                                         *)
(* What the encoders produce (the byte size of a PNG, of a quantized PNG,  *)
(* of a JPEG at a given quality, of a GIF) is decided outside the program; *)
(* it is an input of each call, the record o ("outcomes").                 *)
(***************************************************************************)
EXTENDS Integers, Sequences, FiniteSets, TLC

VARIABLES
    inputDir,         \* INPUT_FOLDER: path -> file content or NoFile
    outputDir,        \* OUTPUT_FOLDER: output path -> artifact or NoArtifact
    processed_files,  \* ImageHandler.processed_files
    pc,               \* position of main(): "sweep", "watch", "crashed"; "call"/"done" for one call
    listing,          \* INPUT_FOLDER.iterdir() as the startup sweep got it
    visited,          \* the entries of the listing the sweep has been through
    queue,            \* file-created events delivered by the observer, not yet handled
    handler,          \* position of on_created: idle, or sleeping on a path
    log,              \* history: the calls of optimize_image, in order
    suppressed,       \* history: <<path, why>> of the events on_created dropped
    envSteps,         \* number of environment steps taken (bounded by MaxEnvSteps)
    call,             \* the input of the single call (SpecOptimize, SpecThumb)
    result            \* the result of the single call

vars == <<inputDir, outputDir, processed_files, pc, listing, visited, queue, handler,
          log, suppressed, envSteps, call, result>>

-----------------------------------------------------------------------------
(* Bounds of the model *)

MaxFrames == 5
MaxDim == 200
MaxEnvSteps == 4

-----------------------------------------------------------------------------
(* Configuration, lines 21-26 *)

MAX_SIZE_BYTES == 256 * 1024

MAX_DIMENSIONS == <<128, 128>>

SUPPORTED_EXTENSIONS == {".png", ".jpg", ".jpeg", ".gif", ".webp"}

(* str.lower() on the suffixes the model uses *)
Lower(s) ==
    CASE s = ".PNG" -> ".png"
      [] s = ".JPG" -> ".jpg"
      [] s = ".GIF" -> ".gif"
      [] s = ".TXT" -> ".txt"
      [] OTHER -> s

(* A path of the input folder is <<stem, suffix>>. *)
Stem(path) == path[1]

Suffix(path) == path[2]

(* OUTPUT_FOLDER / f"{input_path.stem}_emoji{ext}" is <<stem, ext>>. *)
OutputPath(input_path, ext) == <<Stem(input_path), ext>>

(* The value None *)
None == <<>>

NoFile == [kind |-> "none"]

NoArtifact == [kind |-> "none"]

(* img.info.get(key, default): info is <<>> (no key) or <<value>> *)
InfoGet(info, default) == IF info = <<>> THEN default ELSE info[1]

-----------------------------------------------------------------------------
(* Image.thumbnail(MAX_DIMENSIONS): Pillow keeps the image when it already *)
(* fits; otherwise it fixes the limiting side at the bound and gives the   *)
(* other side floor or ceil of the exact value, whichever keeps the aspect *)
(* ratio closer (floor on a tie), and at least 1.                          *)

Abs(n) == IF n < 0 THEN -n ELSE n

Max2(a, b) == IF a >= b THEN a ELSE b

CeilDiv(a, b) == (a + b - 1) \div b

thumbnail_stretch(w, h) == MAX_DIMENSIONS

thumbnail(w, h) ==
    LET x == MAX_DIMENSIONS[1]
        y == MAX_DIMENSIONS[2]
    IN  IF x >= w /\ y >= h THEN <<w, h>>
        ELSE IF x * h >= w * y
        THEN \* x / y >= aspect: the height is the limiting side
             LET fl == (y * w) \div h
                 ce == CeilDiv(y * w, h)
                 \* key(n) = |aspect - n / y|, compared after scaling by y * h
                 pick == IF Abs(y * w - fl * h) <= Abs(y * w - ce * h) THEN fl ELSE ce
             IN  <<Max2(pick, 1), y>>
        ELSE LET fl == (x * h) \div w
                 ce == CeilDiv(x * h, w)
                 \* key(n) = 0 if n = 0 else |aspect - x / n|, scaled by h * fl * ce
                 pick == IF fl = 0 THEN fl
                         ELSE IF Abs(w * fl - x * h) * ce <= Abs(w * ce - x * h) * fl
                              THEN fl ELSE ce
             IN  <<x, Max2(pick, 1)>>

-----------------------------------------------------------------------------
(* Encoder outcomes.  o.png, o.quant, o.gif, o.gifReduced are the sizes    *)
(* stat() reports after the corresponding save; the JPEG encoding fits the *)
(* limit exactly at the qualities <= o.jpegPass; o.saveFails makes the     *)
(* first save raise.                                                       *)

FitSize == MAX_SIZE_BYTES

OverSize == MAX_SIZE_BYTES + 1

Sizes == {FitSize, OverSize}

JpegSize(o, quality) == IF quality <= o.jpegPass THEN FitSize ELSE OverSize

Artifact(src, format, mode, quantized, quality, size, dims, frames, durations, loop) ==
    [kind |-> "artifact", src |-> src, format |-> format, mode |-> mode,
     quantized |-> quantized, quality |-> quality, size |-> size,
     w |-> dims[1], h |-> dims[2],
     frames |-> frames, durations |-> durations, loop |-> loop]

(* What a call hands back: the return value, the output folder after it,   *)
(* whether an "Error processing" line was printed, whether an exception    *)
(* left the call, and the qualities save_with_size_limit encoded at.       *)
Result(ret, out, error, raised, attempts) ==
    [ret |-> ret, out |-> out, error |-> error, raised |-> raised, attempts |-> attempts]

-----------------------------------------------------------------------------
(* save_with_size_limit, lines 149-157: the qualities encoded at, in       *)
(* order; the file left at the output path is the last of them.            *)

(* the loop with "while quality >= 10" *)
RECURSIVE LadderInclusive(_, _, _)
LadderInclusive(quality, attempts, o) ==
    IF quality >= 10
    THEN IF JpegSize(o, quality) <= MAX_SIZE_BYTES
         THEN Append(attempts, quality)
         ELSE LadderInclusive(quality - 5, Append(attempts, quality), o)
    ELSE attempts

RECURSIVE Ladder(_, _, _)
Ladder(quality, attempts, o) ==
    IF quality > 10
    THEN IF JpegSize(o, quality) <= MAX_SIZE_BYTES
         THEN Append(attempts, quality)
         ELSE Ladder(quality - 5, Append(attempts, quality), o)
    ELSE attempts

save_with_size_limit_inclusive(o) == LadderInclusive(95, <<>>, o)

save_with_size_limit(o) == Ladder(95, <<>>, o)

-----------------------------------------------------------------------------
(* optimize_animated_gif, lines 94-146 *)

(* seq[::2] *)
EveryOther(seq) == [i \in 1..((Len(seq) + 1) \div 2) |-> seq[2 * i - 1]]

(* seq[1::2] *)
EveryOtherOdd(seq) == [i \in 1..(Len(seq) \div 2) |-> seq[2 * i]]

reduce_frames_odd(frames, durations) ==
    [frames |-> EveryOtherOdd(frames),
     durations |-> [i \in 1..(Len(durations) \div 2) |-> EveryOtherOdd(durations)[i] * 2]]

reduce_frames(frames, durations) ==
    [frames |-> EveryOther(frames),
     durations |-> [i \in 1..((Len(durations) + 1) \div 2) |-> EveryOther(durations)[i] * 2]]

optimize_animated_gif(input_path, img, o, out) ==
    LET output_path == OutputPath(input_path, ".gif")
        n == Len(img.durations)
        dims == thumbnail(img.w, img.h)
        frames == [i \in 1..n |-> i]
        durations == [i \in 1..n |-> InfoGet(img.durations[i], 100)]
        loop == InfoGet(img.loop, 0)
        first == Artifact(input_path, "GIF", "P", FALSE, 0, o.gif, dims,
                          frames, durations, loop)
        reduced == reduce_frames(frames, durations)
        second == Artifact(input_path, "GIF", "P", FALSE, 0, o.gifReduced, dims,
                           reduced.frames, reduced.durations, loop)
    IN  IF o.saveFails
        THEN Result(None, out, TRUE, FALSE, <<>>)
        ELSE IF first.size > MAX_SIZE_BYTES
        THEN Result(output_path, [out EXCEPT ![output_path] = second], FALSE, FALSE, <<>>)
        ELSE Result(output_path, [out EXCEPT ![output_path] = first], FALSE, FALSE, <<>>)

-----------------------------------------------------------------------------
(* optimize_image, lines 35-91 *)

(* line 52 *)
NeedsAlpha(img) ==
    img.mode \in {"RGBA", "LA"} \/ (img.mode = "P" /\ img.transparency)

(* line 80: the JPEG fallback is taken whatever the mode *)
jpeg_fallback_opaque_only(mode, size) == mode # "RGBA" /\ size > MAX_SIZE_BYTES

jpeg_fallback(mode, size) == size > MAX_SIZE_BYTES

(* lines 51-87; raised = TRUE stands for an exception reaching the except clause *)
optimize_static(input_path, img, o, out) ==
    LET mode == IF NeedsAlpha(img) THEN "RGBA" ELSE "RGB"
        dims == thumbnail(img.w, img.h)
        png_path == OutputPath(input_path, ".png")
        jpg_path == OutputPath(input_path, ".jpg")
        png == Artifact(input_path, "PNG", mode, FALSE, 0, o.png, dims, <<>>, <<>>, 0)
        quantized == Artifact(input_path, "PNG", "P", TRUE, 0, o.quant, dims, <<>>, <<>>, 0)
        out1 == [out EXCEPT ![png_path] = png]
        out2 == IF mode = "RGBA" THEN [out1 EXCEPT ![png_path] = quantized] ELSE out1
        attempts == save_with_size_limit(o)
        last == attempts[Len(attempts)]
        jpeg == Artifact(input_path, "JPEG", "RGB", FALSE, last, JpegSize(o, last), dims,
                         <<>>, <<>>, 0)
        out3 == [out2 EXCEPT ![jpg_path] = jpeg]
    IN  IF o.saveFails
        THEN Result(None, out, FALSE, TRUE, <<>>)
        ELSE IF out1[png_path].size > MAX_SIZE_BYTES
        THEN IF jpeg_fallback(mode, out2[png_path].size)
             THEN Result(jpg_path, out3, FALSE, FALSE, attempts)
             ELSE Result(png_path, out2, FALSE, FALSE, <<>>)
        ELSE Result(png_path, out1, FALSE, FALSE, <<>>)

(* lines 40-50 without the except clause of lines 89-91 *)
optimize_image_try(input_path, file, o, out) ==
    IF file.kind \in {"none", "corrupt", "dir"}
    THEN Result(None, out, FALSE, TRUE, <<>>)      \* Image.open raises
    ELSE IF file.kind = "animated"
    THEN optimize_animated_gif(input_path, file, o, out)
    ELSE optimize_static(input_path, file, o, out)

optimize_image_nocatch(input_path, file, o, out) ==
    optimize_image_try(input_path, file, o, out)

optimize_image(input_path, file, o, out) ==
    LET r == optimize_image_try(input_path, file, o, out)
    IN  IF r.raised
        THEN Result(None, r.out, TRUE, FALSE, <<>>)   \* lines 89-91
        ELSE r

(* "Returns the output path if successful, None otherwise" (line 38): what *)
(* the caller can tell from the return value.                              *)
Outcome(r) == IF r.ret = None THEN "Failure" ELSE "Success"

-----------------------------------------------------------------------------
(* The files and the encoder outcomes the specifications draw from *)

Image(kind, mode, transparency, w, h, durations, loop) ==
    [kind |-> kind, mode |-> mode, transparency |-> transparency, w |-> w, h |-> h,
     durations |-> durations, loop |-> loop]

Corrupt == Image("corrupt", "RGB", FALSE, 1, 1, <<>>, <<>>)

DirFile == Image("dir", "RGB", FALSE, 1, 1, <<>>, <<>>)

StaticModes == {"RGB", "RGBA", "LA", "P", "L"}

OptDims == {<<64, 48>>, <<500, 500>>, <<300, 100>>}

StaticImages ==
    {Image("static", m, t, d[1], d[2], <<>>, <<>>) :
        m \in StaticModes, t \in BOOLEAN, d \in OptDims}

(* info["duration"] of a frame and info["loop"]: absent, or a value *)
DurationInfos == {<<>>, <<40>>, <<70>>}

LoopInfos == {<<>>, <<0>>, <<3>>}

AnimatedImages ==
    {Image("animated", "P", FALSE, 200, 100, ds, l) :
        ds \in UNION {[1..n -> DurationInfos] : n \in 2..MaxFrames}, l \in LoopInfos}

JpegPasses == {q \in 5..95 : q % 5 = 0}

Outcomes(saveFails, png, quant, jpegPass, gif, gifReduced) ==
    [saveFails |-> saveFails, png |-> png, quant |-> quant, jpegPass |-> jpegPass,
     gif |-> gif, gifReduced |-> gifReduced]

AllFit == Outcomes(FALSE, FitSize, FitSize, 95, FitSize, FitSize)

StaticOutcomes ==
    {Outcomes(f, p, q, j, FitSize, FitSize) :
        f \in BOOLEAN, p \in Sizes, q \in Sizes, j \in JpegPasses}

AnimatedOutcomes ==
    {Outcomes(f, FitSize, FitSize, 95, g, r) : f \in BOOLEAN, g \in Sizes, r \in Sizes}

InputPaths == {<<"a", ".png">>, <<"a", ".JPG">>, <<"n", ".txt">>}

OutPaths == {<<Stem(p), e>> : p \in InputPaths, e \in {".png", ".jpg", ".gif"}}

EmptyInput == [p \in InputPaths |-> NoFile]

EmptyOutput == [op \in OutPaths |-> NoArtifact]

Idle == [state |-> "idle", path |-> None]

NoCall == [path |-> None, o |-> AllFit]

NoResult == Result(None, EmptyOutput, FALSE, FALSE, <<>>)

-----------------------------------------------------------------------------
(* One call of optimize_image *)

CallPath == <<"a", ".png">>

InitCall(files, outcomes) ==
    /\ \E f \in files, o \in outcomes :
          /\ inputDir = [EmptyInput EXCEPT ![CallPath] = f]
          /\ call = [path |-> CallPath, o |-> o]
    /\ outputDir = EmptyOutput
    /\ processed_files = {}
    /\ pc = "call"
    /\ listing = {}
    /\ visited = {}
    /\ queue = <<>>
    /\ handler = Idle
    /\ log = <<>>
    /\ suppressed = {}
    /\ envSteps = 0
    /\ result = NoResult

InitOptimize ==
    \/ InitCall(StaticImages \cup {Corrupt}, StaticOutcomes)
    \/ InitCall(AnimatedImages, AnimatedOutcomes)

InitThumb ==
    InitCall({Image(k, "RGB", FALSE, w, h, <<<<40>>, <<40>>>>, <<>>) :
                 k \in {"static", "animated"}, w \in 1..MaxDim, h \in 1..MaxDim},
             {AllFit})

Optimize ==
    /\ pc = "call"
    /\ LET r == optimize_image(call.path, inputDir[call.path], call.o, outputDir)
       IN  /\ result' = r
           /\ outputDir' = r.out
    /\ pc' = "done"
    /\ UNCHANGED <<inputDir, processed_files, listing, visited, queue, handler, log,
                   suppressed, envSteps, call>>

NextOptimize == Optimize

SpecOptimize == InitOptimize /\ [][NextOptimize]_vars

SpecThumb == InitThumb /\ [][NextOptimize]_vars

-----------------------------------------------------------------------------
(* The process: main(), lines 198-234 *)

Animated3 == Image("animated", "P", FALSE, 200, 100, <<<<40>>, <<>>, <<70>>>>, <<0>>)

Opaque == Image("static", "RGB", FALSE, 500, 500, <<>>, <<>>)

InitFiles == {Opaque, Animated3, Corrupt}

WatchFiles == {Opaque, Animated3, Corrupt, DirFile}

AllOver == Outcomes(FALSE, OverSize, OverSize, 5, OverSize, OverSize)

SaveFails == Outcomes(TRUE, FitSize, FitSize, 95, FitSize, FitSize)

WatchOutcomes == {AllFit, AllOver, SaveFails}

Init ==
    /\ inputDir \in [InputPaths -> {NoFile} \cup InitFiles]
    /\ outputDir = EmptyOutput
    /\ processed_files = {}
    /\ pc = "sweep"
    /\ listing = {p \in InputPaths : inputDir[p] # NoFile}
    /\ visited = {}
    /\ queue = <<>>
    /\ handler = Idle
    /\ log = <<>>
    /\ suppressed = {}
    /\ envSteps = 0
    /\ call = NoCall
    /\ result = NoResult

Supported(path) == Lower(Suffix(path)) \in SUPPORTED_EXTENSIONS

LogEntry(path, via, r) == [path |-> path, via |-> via, ret |-> r.ret, error |-> r.error]

(* The calls of optimize_image on `path` so far *)
Calls(l, path) == Cardinality({i \in 1..Len(l) : l[i].path = path})

(* optimize_image(path) as a caller sees it: the output folder and the log *)
(* change, and an exception leaving the call ends the caller.              *)
CallOptimize(path, via) ==
    \E r \in {optimize_image(path, inputDir[path], o, outputDir) : o \in WatchOutcomes} :
        /\ outputDir' = r.out
        /\ log' = Append(log, LogEntry(path, via, r))
        /\ pc' = IF r.raised THEN "crashed" ELSE pc

(* process_existing_files, lines 191-195: one iteration of the loop *)
SweepStep ==
    /\ pc = "sweep"
    /\ \E file_path \in listing \ visited :
          /\ visited' = visited \cup {file_path}
          /\ IF Supported(file_path)
             THEN CallOptimize(file_path, "sweep")
             ELSE UNCHANGED <<outputDir, log, pc>>
    /\ UNCHANGED <<inputDir, processed_files, listing, queue, handler, suppressed,
                   envSteps, call, result>>

(* lines 220-224: the sweep is over, the observer starts *)
StartWatching ==
    /\ pc = "sweep"
    /\ visited = listing
    /\ pc' = "watch"
    /\ UNCHANGED <<inputDir, outputDir, processed_files, listing, visited, queue, handler,
                   log, suppressed, envSteps, call, result>>

(* on_created, lines 166-181: up to the settle delay *)
OnCreated_nodedup ==
    /\ pc = "watch"
    /\ handler.state = "idle"
    /\ queue # <<>>
    /\ LET event == Head(queue)
           path == event.src_path
       IN  /\ queue' = Tail(queue)
           /\ IF event.is_directory \/ ~Supported(path)
              THEN UNCHANGED <<handler, suppressed>>
              ELSE /\ handler' = [state |-> "sleeping", path |-> path]
                   /\ UNCHANGED suppressed
    /\ UNCHANGED <<inputDir, outputDir, processed_files, pc, listing, visited, log,
                   envSteps, call, result>>

OnCreated ==
    /\ pc = "watch"
    /\ handler.state = "idle"
    /\ queue # <<>>
    /\ LET event == Head(queue)
           path == event.src_path
       IN  /\ queue' = Tail(queue)
           /\ IF event.is_directory \/ ~Supported(path)
              THEN UNCHANGED <<handler, suppressed>>
              ELSE IF path \in processed_files
              THEN /\ suppressed' = suppressed \cup {<<path, "duplicate">>}
                   /\ UNCHANGED handler
              ELSE /\ handler' = [state |-> "sleeping", path |-> path]
                   /\ UNCHANGED suppressed
    /\ UNCHANGED <<inputDir, outputDir, processed_files, pc, listing, visited, log,
                   envSteps, call, result>>

(* on_created, lines 183-188: after the settle delay *)
OnCreatedAfterDelay_nocheck ==
    /\ pc = "watch"
    /\ handler.state = "sleeping"
    /\ handler' = Idle
    /\ processed_files' = processed_files \cup {handler.path}
    /\ CallOptimize(handler.path, "event")
    /\ UNCHANGED <<inputDir, listing, visited, queue, suppressed, envSteps, call, result>>

OnCreatedAfterDelay ==
    /\ pc = "watch"
    /\ handler.state = "sleeping"
    /\ handler' = Idle
    /\ IF inputDir[handler.path] = NoFile
       THEN /\ suppressed' = suppressed \cup {<<handler.path, "vanished">>}
            /\ UNCHANGED <<processed_files, outputDir, log, pc>>
       ELSE /\ processed_files' = processed_files \cup {handler.path}
            /\ CallOptimize(handler.path, "event")
            /\ UNCHANGED suppressed
    /\ UNCHANGED <<inputDir, listing, visited, queue, envSteps, call, result>>

(* The environment: a file (or directory) appears in the input folder; the *)
(* observer, once started, delivers a file-created event for it.           *)
CreateFile ==
    /\ envSteps < MaxEnvSteps
    /\ \E p \in InputPaths, f \in WatchFiles :
          /\ inputDir[p] = NoFile
          /\ inputDir' = [inputDir EXCEPT ![p] = f]
          /\ queue' = IF pc = "watch"
                      THEN Append(queue, [src_path |-> p, is_directory |-> f.kind = "dir"])
                      ELSE queue
    /\ envSteps' = envSteps + 1
    /\ UNCHANGED <<outputDir, processed_files, pc, listing, visited, handler, log,
                   suppressed, call, result>>

(* The environment: a file of the input folder is removed. *)
DeleteFile ==
    /\ envSteps < MaxEnvSteps
    /\ \E p \in InputPaths :
          /\ inputDir[p] # NoFile
          /\ inputDir' = [inputDir EXCEPT ![p] = NoFile]
    /\ envSteps' = envSteps + 1
    /\ UNCHANGED <<outputDir, processed_files, pc, listing, visited, queue, handler, log,
                   suppressed, call, result>>

Next ==
    \/ SweepStep
    \/ StartWatching
    \/ OnCreated
    \/ OnCreatedAfterDelay
    \/ CreateFile
    \/ DeleteFile

Spec == Init /\ [][Next]_vars

-----------------------------------------------------------------------------
(* Properties of one call (SpecOptimize, SpecThumb) *)

Img == inputDir[call.path]

Done == pc = "done"

PngPath == OutputPath(call.path, ".png")

JpgPath == OutputPath(call.path, ".jpg")

GifPath == OutputPath(call.path, ".gif")

Written == {op \in OutPaths : outputDir[op] # NoArtifact}

(* The case of C1: a still image that carries transparency, whose PNG and *)
(* whose quantized PNG both exceed the limit.                             *)
AlphaStillOver ==
    /\ Done
    /\ Img.kind = "static"
    /\ NeedsAlpha(Img)
    /\ ~call.o.saveFails
    /\ call.o.png > MAX_SIZE_BYTES
    /\ call.o.quant > MAX_SIZE_BYTES

CE_C2 ==
    (Done /\ result.ret # None /\ outputDir[result.ret].size > MAX_SIZE_BYTES) =>
        Outcome(result) = "SizeExceeded"

(* The case of C3: the JPEG ladder ran and none of its encodings fits *)
LadderExhausted ==
    /\ Done
    /\ result.attempts # <<>>
    /\ \A i \in 1..Len(result.attempts) :
          JpegSize(call.o, result.attempts[i]) > MAX_SIZE_BYTES

(* C3, as claimed: when no attempt of the JPEG ladder fits, the file left *)
(* at the output path is the encoding made at quality 10.                 *)
CE_C3 == LadderExhausted => outputDir[JpgPath].quality = 10

(* C3, amended: the attempts of the JPEG ladder are 95, 90, 85, ... in    *)
(* steps of 5, it stops at the first attempt that fits, and when none     *)
(* fits the last attempt is at quality 15 (quality 10 is never encoded):  *)
(* the file left at the output path is the quality-15 encoding.           *)
T_C3 ==
    (Done /\ result.attempts # <<>>) =>
        LET a == result.attempts
            n == Len(a)
        IN  /\ result.ret = JpgPath
            /\ \A i \in 1..n : a[i] = 95 - 5 * (i - 1)
            /\ \A i \in 1..(n - 1) : JpegSize(call.o, a[i]) > MAX_SIZE_BYTES
            /\ outputDir[JpgPath].quality = a[n]
            /\ outputDir[JpgPath].size = JpegSize(call.o, a[n])
            /\ \A i \in 1..n : a[i] > 10
            /\ LadderExhausted => (a[n] = 15 /\ n = 17)

W_C3 == LadderExhausted /\ outputDir[JpgPath].quality = 15 /\ call.o.jpegPass = 10

(* The source frame durations, with the default of 100 *)
SourceDuration(i) == InfoGet(Img.durations[i], 100)

(* C6: an N-frame animation whose first assembled GIF is within 256KB     *)
(* keeps its N frames in order, with their durations and the loop count;  *)
(* otherwise the artifact is assembled once more from ceil(N/2) frames,   *)
(* the source frames 1, 3, 5, ... (indices 0, 2, 4, ...) in order, each   *)
(* with twice its source duration, whatever size that second GIF has.     *)
T_C6 ==
    (Done /\ Img.kind = "animated" /\ ~call.o.saveFails) =>
        LET a == outputDir[GifPath]
            N == Len(Img.durations)
        IN  /\ result.ret = GifPath
            /\ Written = {GifPath}
            /\ a.loop = InfoGet(Img.loop, 0)
            /\ IF call.o.gif <= MAX_SIZE_BYTES
               THEN /\ Len(a.frames) = N
                    /\ \A i \in 1..N : a.frames[i] = i /\ a.durations[i] = SourceDuration(i)
                    /\ a.size = call.o.gif
               ELSE /\ Len(a.frames) = CeilDiv(N, 2)
                    /\ Len(a.durations) = CeilDiv(N, 2)
                    /\ \A i \in 1..CeilDiv(N, 2) :
                          /\ a.frames[i] = 2 * i - 1
                          /\ a.durations[i] = 2 * SourceDuration(2 * i - 1)
                    /\ a.size = call.o.gifReduced

W_C6 ==
    /\ Done
    /\ Img.kind = "animated"
    /\ Len(Img.durations) = 3
    /\ call.o.gif > MAX_SIZE_BYTES
    /\ call.o.gifReduced > MAX_SIZE_BYTES
    /\ result.ret = GifPath
    /\ outputDir[GifPath].durations = <<80, 200>>

(* C8: the artifact of a still image, and every frame of an animated one, *)
(* is at most 128 x 128; an image that already fits keeps its size; a     *)
(* larger one is scaled by one factor, the limiting side to 128 and the   *)
(* other side to within one pixel of its exact scaled length.             *)
T_C8 ==
    (Done /\ result.ret # None) =>
        LET a == outputDir[result.ret]
            W == Img.w
            H == Img.h
        IN  /\ a.w >= 1 /\ a.w <= 128
            /\ a.h >= 1 /\ a.h <= 128
            /\ (W <= 128 /\ H <= 128) => (a.w = W /\ a.h = H)
            /\ (W > 128 \/ H > 128) =>
                  IF H >= W
                  THEN a.h = 128 /\ Abs(a.w * H - 128 * W) < H
                  ELSE a.w = 128 /\ Abs(a.h * W - 128 * H) < W

W_C8 ==
    /\ Done
    /\ Img.kind = "animated"
    /\ Img.w = 200 /\ Img.h = 150
    /\ result.ret = GifPath
    /\ outputDir[GifPath].w = 128 /\ outputDir[GifPath].h = 96

(* C9, as claimed: a successful still-image call leaves exactly one       *)
(* artifact in the output folder, the one whose path it returns.          *)
CE_C9 == (Done /\ Img.kind = "static" /\ result.ret # None) => Written = {result.ret}

-----------------------------------------------------------------------------
(* Properties of the process (Spec) *)

(* C4, as claimed: once a path has been processed, by the sweep or by an  *)
(* event, it is never processed again in the run.                         *)
CE_C4 ==
    [][\A p \in InputPaths : Calls(log, p) >= 1 => Calls(log', p) = Calls(log, p)]_vars

(* C4, amended: once a path has been processed by a file-created event    *)
(* (it is in processed_files), it stays there and is never processed      *)
(* again in the run, also after the file was deleted and recreated; the   *)
(* startup sweep records nothing, so a path it processed is processed     *)
(* once more by the first file-created event for it.                      *)
T_C4 ==
    [][\A p \in InputPaths :
          p \in processed_files =>
              /\ p \in processed_files'
              /\ Calls(log', p) = Calls(log, p)]_vars

W_C4 ==
    \E p \in InputPaths :
        /\ <<p, "duplicate">> \in suppressed
        /\ p \in processed_files
        /\ inputDir[p] # NoFile
        /\ Cardinality({i \in 1..Len(log) : log[i].path = p /\ log[i].via = "event"}) = 1

(* C5: a failure inside an optimization gives None and goes no further:   *)
(* the process never ends on it, the sweep goes through every supported   *)
(* entry of its listing, and the watch loop goes on after a failed event. *)
T_C5 ==
    /\ pc # "crashed"
    /\ \A i \in 1..Len(log) : log[i].error <=> log[i].ret = None
    /\ \A p \in visited : Supported(p) => Calls(log, p) >= 1
    /\ pc = "watch" => visited = listing

W_C5 ==
    /\ pc = "watch"
    /\ \E i, j, k, l \in 1..Len(log) :
          /\ i < j /\ j < k /\ k < l
          /\ log[i].via = "sweep" /\ log[i].error
          /\ log[j].via = "sweep" /\ log[j].ret # None
          /\ log[k].via = "event" /\ log[k].error
          /\ log[l].via = "event" /\ log[l].ret # None

(* C7: when the file of a file-created event is gone after the settle     *)
(* delay, the handler returns without calling optimize_image: nothing is  *)
(* written, nothing is logged (no error line), nothing is recorded.       *)
T_C7 ==
    [][(handler.state = "sleeping" /\ handler'.state = "idle"
            /\ inputDir[handler.path] = NoFile) =>
          /\ log' = log
          /\ outputDir' = outputDir
          /\ processed_files' = processed_files
          /\ pc' = pc]_vars

W_C7 ==
    \E p \in InputPaths :
        /\ <<p, "vanished">> \in suppressed
        /\ Calls(log, p) = 0
        /\ handler = Idle

(* C10, as claimed: an artifact written for one source is never           *)
(* overwritten by the optimization of another source.                     *)
CE_C10 ==
    [][\A op \in OutPaths :
          outputDir[op] # NoArtifact => outputDir'[op].src = outputDir[op].src]_vars

=============================================================================
